---- MODULE Spec2Model ----
(***************************************************************************)
(* A model of vw::ImageView<PixelT> (src/src/vw/Image/ImageView.h): the    *)
(* reference-counted buffer behind boost::shared_array, the view's extent, *)
(* origin and strides, and every operation that changes them.              *)
(*                                                                         *)
(* A view is a record of the eight data members. A buffer is named by an   *)
(* abstract id; heap[b] holds its liveness, its shared_array use count and *)
(* its elements. A pointer to element 0 of buffer b is modelled by b, the  *)
(* null pointer by NULL; element k of the buffer is mem[k+1].              *)
(***************************************************************************)
EXTENDS Integers, Sequences, FiniteSets, TLC

\* ---- bounds of the model ------------------------------------------------
NumViews == 2       \* view objects the client program declares
MaxBuffers == 2     \* buffers the allocator can hold live at once
MaxAlloc == 2       \* largest element count operator new[] can satisfy
MaxImages == 2      \* image file names on the viewer's command line
CacheArg == 16      \* the value of --cache, when the command line has one
\* Width of `unsigned` (m_cols, m_rows, m_planes, size). The builds have 32
\* bits; TLC's integers cannot hold 2^32, so the model runs the same
\* arithmetic on a narrower word: products wrap modulo 2^UnsignedBits just as
\* they do modulo 2^32, at extents scaled down accordingly.
UnsignedBits == 3

\* ---- program constants --------------------------------------------------
NULL == 0

ViewIds == 1..NumViews
BufIds == 1..MaxBuffers

RECURSIVE Pow2(_)
Pow2(n) == IF n = 0 THEN 1 ELSE 2 * Pow2(n - 1)

UnsignedMod == Pow2(UnsignedBits)

\* Extents a caller passes. In `unsigned`, HalfRange * 2 wraps to 0 and
\* (HalfRange + 1) * 2 wraps to 2.
HalfRange == Pow2(UnsignedBits - 1)
Extents ==
  { <<0, 1, 1>>,              \* no element
    <<2, 1, 1>>, <<1, 2, 1>>, <<1, 1, 2>>,
    <<HalfRange, 2, 1>>,      \* the product wraps to 0
    <<HalfRange + 1, 2, 1>> } \* the product wraps to 2

\* The extents of the computed producers a caller assigns from.
ProducerExtents ==
  { <<2, 1, 1>>, <<1, 2, 1>>, <<HalfRange, 2, 1>>, <<HalfRange + 1, 2, 1>> }

\* The extents of the producers assigned to a const view.
ConstExtents == { <<2, 1, 1>>, <<1, 2, 1>> }

\* The extents of the producers that hold a copy of the view assigned to.
CopyExtents == { <<1, 2, 1>>, <<HalfRange, 2, 1>> }

\* The ni x nj x nplanes of the foreign arrays handed to the interop copy.
VilShapes ==
  { <<2, 1, 1>>, <<2, 1, 3>>, <<HalfRange + 1, 2, 3>> }

\* Element types the template is instantiated with.
PixelTypes == {"int32", "PixelRGB", "pod"}

\* boost::is_fundamental<pixel_type>::value
is_fundamental(t) == t = "int32"

\* CompoundNumChannels<PixelT>::value
CompoundNumChannels(t) == IF t = "PixelRGB" THEN 3 ELSE 1

\* Values an element that was never initialised may be read as.
IndetValues == {0, 3}
\* The value a client stores through operator().
WriteValues == {7}
\* The coordinates a client stores at: the origin and one step along each axis.
WriteCoords == {<<0, 0, 0>>, <<1, 0, 0>>, <<0, 1, 0>>, <<0, 0, 1>>}
\* Read of an address outside every allocation: no defined value.
Undef == -1

VARIABLES
  pixelType,  \* the template argument PixelT
  view,       \* view[v]: the data members of view object v
  heap,       \* heap[b]: the buffer named b
  pc,         \* "idle", or "crashed" once undefined behaviour ended the run
  last,       \* the operation that produced this state, and how it ended
  vwv         \* the run of the viewer's main(): see the section on vwv

vars == <<pixelType, view, heap, pc, last, vwv>>

\* ---- unsigned arithmetic ------------------------------------------------
Mul32(a, b) == (a * b) % UnsignedMod

\* ---- boost::shared_array<PixelT> ----------------------------------------
FreeBuf == [live |-> FALSE, refs |-> 0, mem |-> <<>>]

\* shared_array(p): takes ownership of a new array, use count 1.
sa_new(hp, b, contents) ==
  [hp EXCEPT ![b] = [live |-> TRUE, refs |-> 1, mem |-> contents]]

\* Copying a shared_array: one more owner.
sa_share(hp, b) ==
  IF b = NULL THEN hp ELSE [hp EXCEPT ![b].refs = @ + 1]

\* A release that deletes the array whoever else holds it.
sa_release_frees(hp, b) ==
  IF b = NULL THEN hp ELSE [hp EXCEPT ![b] = FreeBuf]

\* A release that never deletes the array: what sa_release must not be.
sa_release_leaks(hp, b) ==
  IF b = NULL THEN hp ELSE [hp EXCEPT ![b].refs = @ - 1]

\* Destroying or overwriting a shared_array: one owner fewer; the array is
\* deleted when the last owner lets go.
sa_release(hp, b) ==
  IF b = NULL THEN hp
  ELSE IF hp[b].refs = 1 THEN [hp EXCEPT ![b] = FreeBuf]
  ELSE [hp EXCEPT ![b].refs = @ - 1]

\* ---- the view object ----------------------------------------------------
\* A slot holding no object.
NoView ==
  [alive |-> FALSE, m_data |-> NULL, m_cols |-> 0, m_rows |-> 0, m_planes |-> 0,
   m_origin |-> NULL, m_cstride |-> 0, m_rstride |-> 0, m_pstride |-> 0]

\* ImageView(): the member initialisers of every non-copy constructor.
EmptyView ==
  [alive |-> TRUE, m_data |-> NULL, m_cols |-> 0, m_rows |-> 0, m_planes |-> 0,
   m_origin |-> NULL, m_cstride |-> 0, m_rstride |-> 0, m_pstride |-> 0]

Extent(vw) == <<vw.m_cols, vw.m_rows, vw.m_planes>>

\* The element offset operator()(col,row,plane) adds to m_origin.
Offset(vw, c, r, p) == c * vw.m_cstride + r * vw.m_rstride + p * vw.m_pstride

\* Is the address of (c,r,p) inside the allocation m_origin points into?
InAlloc(hp, vw, c, r, p) ==
  /\ vw.m_origin # NULL
  /\ hp[vw.m_origin].live
  /\ Offset(vw, c, r, p) >= 0
  /\ Offset(vw, c, r, p) < Len(hp[vw.m_origin].mem)

\* operator()(col,row,plane) as an rvalue.
Read(hp, vw, c, r, p) ==
  IF InAlloc(hp, vw, c, r, p)
  THEN hp[vw.m_origin].mem[Offset(vw, c, r, p) + 1]
  ELSE Undef

\* The coordinates 0 <= i < n along an axis of extent n.
Axis(n) == 0..(n - 1)

Coords(c, r, p) == Axis(c) \X Axis(r) \X Axis(p)

ViewCoords(vw) == Coords(vw.m_cols, vw.m_rows, vw.m_planes)

\* Every coordinate of the view addresses an element of its buffer.
AllInAlloc(hp, vw) ==
  \A q \in ViewCoords(vw) : InAlloc(hp, vw, q[1], q[2], q[3])

\* ---- allocation ---------------------------------------------------------
\* Ids the allocator may hand out for a request of `size` elements; the
\* empty set when the request cannot be satisfied (operator new[] throws).
AllocChoices(hp, size) ==
  IF size > MaxAlloc THEN {}
  ELSE LET free == {b \in BufIds : ~hp[b].live}
       IN IF free = {} THEN {}
          ELSE {CHOOSE b \in free : \A o \in free : b <= o}

\* What new PixelT[size] leaves in the array: a class with a default
\* constructor (PixelRGB) is constructed to its zero value; a fundamental or
\* plain struct element is left uninitialised, and reads as whatever the
\* recycled storage held (one stale value g per array, any of IndetValues).
NewContents(t, size) ==
  IF t = "PixelRGB" THEN {[i \in 1..size |-> 0]}
  ELSE {[i \in 1..size |-> g] : g \in IndetValues}

\* ---- variants of set_size that the properties below must tell apart ------
\* set_size without the test of line 166: it reallocates whatever the extent.
set_size_always(t, hp, vw, cols, rows, planes, nb, init) ==
  LET size == Mul32(Mul32(cols, rows), planes) IN
  IF size # 0 /\ nb = NULL
  THEN [view |-> vw, heap |-> hp, err |-> "bad_alloc"]
  ELSE
    LET data == IF size = 0 THEN NULL ELSE nb
        h1 == IF size = 0 THEN hp ELSE sa_new(hp, nb, init)
        h2 == sa_release(h1, vw.m_data)
        h3 == IF is_fundamental(t) /\ data # NULL
              THEN [h2 EXCEPT ![data].mem = [i \in 1..size |-> 0]]
              ELSE h2
    IN [view |-> [alive |-> TRUE, m_data |-> data,
                  m_cols |-> cols, m_rows |-> rows, m_planes |-> planes,
                  m_origin |-> data, m_cstride |-> 1, m_rstride |-> cols,
                  m_pstride |-> Mul32(rows, cols)],
        heap |-> h3, err |-> "none"]

\* set_size keeping the old buffer when the new element count is zero.
set_size_zero_keeps(t, hp, vw, cols, rows, planes, nb, init) ==
  IF cols = vw.m_cols /\ rows = vw.m_rows /\ planes = vw.m_planes
  THEN [view |-> vw, heap |-> hp, err |-> "none"]
  ELSE
    LET size == Mul32(Mul32(cols, rows), planes) IN
    IF size # 0 /\ nb = NULL
    THEN [view |-> vw, heap |-> hp, err |-> "bad_alloc"]
    ELSE
      LET data == IF size = 0 THEN vw.m_data ELSE nb
          h1 == IF size = 0 THEN hp ELSE sa_new(hp, nb, init)
          h2 == IF size = 0 THEN h1 ELSE sa_release(h1, vw.m_data)
          h3 == IF is_fundamental(t) /\ size # 0
                THEN [h2 EXCEPT ![data].mem = [i \in 1..size |-> 0]]
                ELSE h2
      IN [view |-> [alive |-> TRUE, m_data |-> data,
                    m_cols |-> cols, m_rows |-> rows, m_planes |-> planes,
                    m_origin |-> data, m_cstride |-> 1, m_rstride |-> cols,
                    m_pstride |-> Mul32(rows, cols)],
          heap |-> h3, err |-> "none"]

\* set_size letting go of the old buffer before it allocates the new one.
set_size_reset_first(t, hp, vw, cols, rows, planes, nb, init) ==
  IF cols = vw.m_cols /\ rows = vw.m_rows /\ planes = vw.m_planes
  THEN [view |-> vw, heap |-> hp, err |-> "none"]
  ELSE
    LET size == Mul32(Mul32(cols, rows), planes)
        h0 == sa_release(hp, vw.m_data)
    IN
    IF size # 0 /\ nb = NULL
    THEN [view |-> [vw EXCEPT !.m_data = NULL, !.m_origin = NULL],
          heap |-> h0, err |-> "bad_alloc"]
    ELSE
      LET data == IF size = 0 THEN NULL ELSE nb
          h1 == IF size = 0 THEN h0 ELSE sa_new(h0, nb, init)
          h3 == IF is_fundamental(t) /\ data # NULL
                THEN [h1 EXCEPT ![data].mem = [i \in 1..size |-> 0]]
                ELSE h1
      IN [view |-> [alive |-> TRUE, m_data |-> data,
                    m_cols |-> cols, m_rows |-> rows, m_planes |-> planes,
                    m_origin |-> data, m_cstride |-> 1, m_rstride |-> cols,
                    m_pstride |-> Mul32(rows, cols)],
          heap |-> h3, err |-> "none"]

\* ---- set_size -----------------------------------------------------------
\* set_size(cols, rows, planes) on view record vw. nb is the buffer
\* operator new[] returns (NULL: it throws), init the array's contents as
\* allocated. Yields the view, the heap and the exception raised.
set_size(t, hp, vw, cols, rows, planes, nb, init) ==
  IF cols = vw.m_cols /\ rows = vw.m_rows /\ planes = vw.m_planes
  THEN [view |-> vw, heap |-> hp, err |-> "none"]
  ELSE
    LET size == Mul32(Mul32(cols, rows), planes) IN
    IF size # 0 /\ nb = NULL
    THEN [view |-> vw, heap |-> hp, err |-> "bad_alloc"]
    ELSE
      LET data == IF size = 0 THEN NULL ELSE nb
          h1 == IF size = 0 THEN hp ELSE sa_new(hp, nb, init)
          h2 == sa_release(h1, vw.m_data)
          h3 == IF is_fundamental(t) /\ data # NULL
                THEN [h2 EXCEPT ![data].mem = [i \in 1..size |-> 0]]
                ELSE h2
      IN [view |-> [alive |-> TRUE, m_data |-> data,
                    m_cols |-> cols, m_rows |-> rows, m_planes |-> planes,
                    m_origin |-> data, m_cstride |-> 1, m_rstride |-> cols,
                    m_pstride |-> Mul32(rows, cols)],
          heap |-> h3, err |-> "none"]

\* The (nb, init) pairs set_size may meet for a request, the failure included.
AllocOutcomes(t, hp, cols, rows, planes) ==
  LET size == Mul32(Mul32(cols, rows), planes) IN
  {<<NULL, <<>>>>} \cup
  {<<b, init>> : b \in AllocChoices(hp, size), init \in NewContents(t, size)}

\* ---- producers and rasterization ---------------------------------------
\* The per-coordinate value of the computed producer (spec.md section 8,
\* scenario 4: value = c + 10*r, extended to planes).
PVal(c, r, p) == c + 10 * r + 100 * p

\* The value at (i,j,p) of the foreign array handed to the interop copy: the
\* same test pattern.
VilVal(i, j, p) == PVal(i, j, p)

\* The PixelT element the interop copy stores at (c,r,p): the foreign plane's
\* value for a one-channel type; for an interleaved type the pixel made of
\* the foreign array's planes 0..channels-1 at (c,r).
VilPixel(t, c, r, p) ==
  IF CompoundNumChannels(t) = 1 THEN VilVal(c, r, p)
  ELSE VilVal(c, r, 0) + VilVal(c, r, 1) + VilVal(c, r, 2)

\* Position of a coordinate in the canonical traversal: plane-major, then
\* row-major, then column-minor.
RasterOrder(vw, q) == (q[3] * vw.m_rows + q[2]) * vw.m_cols + q[1]

\* The buffer contents after storing val[q] at every coordinate q of the
\* sink whose address lies in the sink's allocation, in traversal order.
StoreAll(hp, vw, val) ==
  IF vw.m_origin = NULL \/ ~hp[vw.m_origin].live THEN hp
  ELSE
    LET b == vw.m_origin
        hits(i) == {q \in ViewCoords(vw) : Offset(vw, q[1], q[2], q[3]) = i - 1}
        lastq(H) == CHOOSE q \in H :
                      \A o \in H : RasterOrder(vw, o) <= RasterOrder(vw, q)
    IN [hp EXCEPT ![b].mem =
          [i \in 1..Len(hp[b].mem) |->
             LET H == hits(i) IN
             IF H = {} THEN hp[b].mem[i] ELSE val[lastq(H)]]]

\* A store through an address outside the sink's allocation is undefined:
\* besides a crash, it may leave the modelled state alone or overwrite an
\* element of any live buffer.
StrayStores(hp, x) ==
  {hp} \cup UNION {{[hp EXCEPT ![b].mem[i] = x] : i \in 1..Len(hp[b].mem)} :
                    b \in {k \in BufIds : hp[k].live}}

\* A rasterizable producer: kind "func" computes PVal over its extent, kind
\* "view" is the ImageView object numbered src, kind "copy" is an expression
\* object that holds a shallow copy of the ImageView numbered src and yields
\* that image repeated periodically over the expression's own extent.
Producer(kind, src, c, r, p) ==
  [kind |-> kind, src |-> src, cols |-> c, rows |-> r, planes |-> p]

\* The coordinate of the held image ch that a "copy" producer reads for q.
ChildCoord(ch, q) == <<q[1] % ch.m_cols, q[2] % ch.m_rows, q[3] % ch.m_planes>>

\* The coordinate of the source image a producer reads for q.
SourceCoord(vws, pd, q) ==
  IF pd.kind = "copy" THEN ChildCoord(vws[pd.src], q) ELSE q

\* The values a producer yields over the sink's coordinates. kind "func" is
\* the computed producer, "view" the ImageView numbered src (read through
\* its prerasterize() copy), "copy" the held copy of it; a read outside the
\* source's allocation yields the indeterminate value g.
SourceValues(hp, vws, pd, sink, g) ==
  [q \in ViewCoords(sink) |->
     IF pd.kind = "func" THEN PVal(q[1], q[2], q[3])
     ELSE LET k == SourceCoord(vws, pd, q) IN
          IF InAlloc(hp, vws[pd.src], k[1], k[2], k[3])
          THEN Read(hp, vws[pd.src], k[1], k[2], k[3])
          ELSE g]

\* Does realizing pd into sink stay inside both allocations?
RasterDefined(hp, vws, pd, sink) ==
  /\ AllInAlloc(hp, sink)
  /\ pd.kind # "func" =>
       \A q \in ViewCoords(sink) :
         LET k == SourceCoord(vws, pd, q)
         IN InAlloc(hp, vws[pd.src], k[1], k[2], k[3])

\* vw::rasterize(src, dest): every element of the sink is written once with
\* the producer's value at its coordinate. Yields the heaps the call may
\* leave when it returns. A traversal that leaves an allocation is undefined:
\* if it returns at all, the stores that fell inside the sink's buffer are
\* done and the others went to memory the model does not hold.
rasterize(hp, vws, pd, sink) ==
  IF RasterDefined(hp, vws, pd, sink)
  THEN {StoreAll(hp, sink, SourceValues(hp, vws, pd, sink, Undef))}
  ELSE {StoreAll(hp, sink, SourceValues(hp, vws, pd, sink, g)) : g \in IndetValues}

\* The record of the last operation: its name and the exception it left
\* with ("none": it returned). For a set_size that changed the extent, a
\* reset and a destruction, `was` holds the view it ran on and the views that
\* held its buffer before the call.
Last(op, e) == [op |-> op, err |-> e, was |-> <<>>]

\* ---- vwv: the command line and the state of main() ---------------------
\* ("cache", po::value<unsigned>(&cache_size)->default_value(1000), ...)
DefaultCacheSize == 1000

\* The command lines: which of the described options are there, and how
\* many image file names.
Argvs ==
  [help : BOOLEAN, normalize : BOOLEAN, nodata : BOOLEAN, cache : BOOLEAN,
   images : 0..MaxImages]

\* The command line `vwv` with nothing after it.
NoArgs ==
  [help |-> FALSE, normalize |-> FALSE, nodata |-> FALSE, cache |-> FALSE,
   images |-> 0]

\* main() entered with command line a: nothing parsed, nothing printed, no
\* file opened, no GUI object. nodata_value is declared without a value.
VwvStart(a) ==
  [pc |-> "parse", argv |-> a,
   vm |-> [help |-> 0, image |-> 0, normalize |-> 0],
   cache_size |-> 0, nodata_value |-> "indeterminate", cache |-> 0,
   open |-> "none", out |-> <<>>, gui |-> "none",
   status |-> "running", diag |-> FALSE]

Init ==
  /\ pixelType \in PixelTypes
  /\ view = [v \in ViewIds |-> NoView]
  /\ heap = [b \in BufIds |-> FreeBuf]
  /\ pc = "idle"
  /\ last = Last("init", "none")
  /\ vwv = VwvStart(NoArgs)

\* ---- operations ---------------------------------------------------------
\* The view objects that exist.
Alive == {v \in ViewIds : view[v].alive}

\* The views that hold the same buffer as v (v included).
Chain(v) ==
  {w \in Alive : view[w].m_data # NULL /\ view[w].m_data = view[v].m_data}

\* ImageView()
DefaultConstruct(v) ==
  /\ pc = "idle" /\ ~view[v].alive
  /\ view' = [view EXCEPT ![v] = EmptyView]
  /\ last' = Last("ImageView()", "none")
  /\ UNCHANGED <<pixelType, heap, pc, vwv>>

\* void set_size(unsigned cols, unsigned rows, unsigned planes)
SetSize(v, cols, rows, planes) ==
  /\ pc = "idle" /\ view[v].alive
  /\ \E a \in AllocOutcomes(pixelType, heap, cols, rows, planes) :
       LET res == set_size(pixelType, heap, view[v], cols, rows, planes, a[1], a[2])
       IN /\ view' = [view EXCEPT ![v] = res.view]
          /\ heap' = res.heap
          /\ last' = IF <<cols, rows, planes>> = Extent(view[v])
                      THEN Last("set_size (same extent)", res.err)
                      ELSE [Last("set_size", res.err) EXCEPT !.was = <<v, Chain(v)>>]
  /\ UNCHANGED <<pixelType, pc, vwv>>

\* ImageView(ImageView const& other)
CopyConstruct(v, o) ==
  /\ pc = "idle" /\ ~view[v].alive /\ view[o].alive
  /\ view' = [view EXCEPT ![v] = view[o]]
  /\ heap' = sa_share(heap, view[o].m_data)
  /\ last' = Last("ImageView(ImageView)", "none")
  /\ UNCHANGED <<pixelType, pc, vwv>>

\* The implicit ImageView& operator=(ImageView const& other): member-wise.
CopyAssign(v, o) ==
  /\ pc = "idle" /\ view[v].alive /\ view[o].alive
  /\ view' = [view EXCEPT ![v] = view[o]]
  /\ heap' = sa_release(sa_share(heap, view[o].m_data), view[v].m_data)
  /\ last' = Last("operator=(ImageView)", "none")
  /\ UNCHANGED <<pixelType, pc, vwv>>

\* The implicit ~ImageView(): m_data lets go of the buffer.
Destroy(v) ==
  /\ pc = "idle" /\ view[v].alive
  /\ view' = [view EXCEPT ![v] = NoView]
  /\ heap' = sa_release(heap, view[v].m_data)
  /\ last' = [Last("~ImageView", "none") EXCEPT !.was = <<v, Chain(v)>>]
  /\ UNCHANGED <<pixelType, pc, vwv>>

\* void reset()
Reset(v) ==
  /\ pc = "idle" /\ view[v].alive
  /\ view' = [view EXCEPT ![v] = EmptyView]
  /\ heap' = sa_release(heap, view[v].m_data)
  /\ last' = [Last("reset", "none") EXCEPT !.was = <<v, Chain(v)>>]
  /\ UNCHANGED <<pixelType, pc, vwv>>

\* ImageView(unsigned cols, unsigned rows, unsigned planes); an exception
\* leaving set_size leaves no object behind.
SizedConstruct(v, cols, rows, planes) ==
  /\ pc = "idle" /\ ~view[v].alive
  /\ \E a \in AllocOutcomes(pixelType, heap, cols, rows, planes) :
       LET res == set_size(pixelType, heap, EmptyView, cols, rows, planes, a[1], a[2])
       IN /\ view' = [view EXCEPT ![v] = IF res.err = "none" THEN res.view ELSE NoView]
          /\ heap' = res.heap
          /\ last' = Last("ImageView(cols,rows,planes)", res.err)
  /\ UNCHANGED <<pixelType, pc, vwv>>

\* operator()(col,row,plane) = x, at a coordinate inside the view's extent.
Write(v, q, x) ==
  /\ pc = "idle" /\ view[v].alive
  /\ q \in ViewCoords(view[v])
  /\ IF InAlloc(heap, view[v], q[1], q[2], q[3])
     THEN /\ heap' = [heap EXCEPT ![view[v].m_origin].mem[Offset(view[v], q[1], q[2], q[3]) + 1] = x]
          /\ pc' = pc
     ELSE \/ heap' \in StrayStores(heap, x) /\ pc' = pc
          \/ heap' = heap /\ pc' = "crashed"
  /\ last' = Last("write", "none")
  /\ UNCHANGED <<pixelType, view, vwv>>

\* cols(), rows(), planes() of a producer.
PExtent(pd) == <<pd.cols, pd.rows, pd.planes>>

\* A view with at least one column, one row and one plane.
NonDegenerate(vw) == vw.m_cols > 0 /\ vw.m_rows > 0 /\ vw.m_planes > 0

\* The ImageView numbered w, as a producer.
ViewProducer(w) ==
  Producer("view", w, view[w].m_cols, view[w].m_rows, view[w].m_planes)

\* The computed producers of each extent.
FuncProducers ==
  {Producer("func", 0, e[1], e[2], e[3]) : e \in ProducerExtents}

\* The producers a client assigns to a const view.
ConstProducers ==
  {Producer("func", 0, e[1], e[2], e[3]) : e \in ConstExtents}

\* The producers a client may assign from.
Producers == FuncProducers \cup {ViewProducer(w) : w \in Alive}

\* The producers that hold a shallow copy of the view v they are assigned
\* to, of each extent other than the view's.
CopyProducers(v) ==
  IF view[v].alive /\ NonDegenerate(view[v])
  THEN {Producer("copy", v, e[1], e[2], e[3]) : e \in CopyExtents \ {Extent(view[v])}}
  ELSE {}

\* The buffer a producer object holds a reference to for as long as it
\* lives: that of the copy inside a "copy" producer.
HeldBuffer(vws, pd) == IF pd.kind = "copy" THEN vws[pd.src].m_data ELSE NULL

\* The body shared by operator=(ImageViewBase<SrcT> const&) and the
\* converting constructor, run on view number v whose members are vw:
\* set_size to the producer's extent, then rasterize the producer into the
\* view. Yields the outcomes: the view, the heap, the exception raised, and
\* whether undefined behaviour ended the run.
\* The producer object exists from before the call until after it, and its
\* held copy keeps the members the source view had when it was made; the
\* heap of an outcome counts the references of the views of the state only.
assign_from(t, hp, vws, v, vw, pd, nb, init) ==
  LET hb  == HeldBuffer(vws, pd)
      h0  == sa_share(hp, hb)
      res == set_size(t, h0, vw, pd.cols, pd.rows, pd.planes, nb, init)
  IN
  IF res.err # "none"
  THEN {[view |-> vw, heap |-> hp, err |-> res.err, crashed |-> FALSE]}
  ELSE
    LET vs == IF pd.kind = "copy" THEN vws ELSE [vws EXCEPT ![v] = res.view] IN
    {[view |-> res.view, heap |-> sa_release(h, hb), err |-> "none", crashed |-> FALSE] :
       h \in rasterize(res.heap, vs, pd, res.view)}
    \cup (IF RasterDefined(res.heap, vs, pd, res.view) THEN {}
          ELSE {[view |-> res.view, heap |-> sa_release(res.heap, hb), err |-> "none",
                 crashed |-> TRUE]})

\* ImageView& operator=(ImageViewBase<SrcT> const& view)
Assign(v, pd) ==
  /\ pc = "idle" /\ view[v].alive
  /\ \E a \in AllocOutcomes(pixelType, heap, pd.cols, pd.rows, pd.planes) :
     \E res \in assign_from(pixelType, heap, view, v, view[v], pd, a[1], a[2]) :
       /\ view' = [view EXCEPT ![v] = res.view]
       /\ heap' = res.heap
       /\ pc' = IF res.crashed THEN "crashed" ELSE pc
       /\ last' = Last("operator=(ImageViewBase)", res.err)
  /\ UNCHANGED <<pixelType, vwv>>

\* ImageView const& operator=(ImageViewBase<SrcT> const& view) const: the
\* producer is rasterized into the view as it is.
AssignConst(v, pd) ==
  /\ pc = "idle" /\ view[v].alive
  /\ \/ /\ heap' \in rasterize(heap, view, pd, view[v])
        /\ pc' = pc
     \/ /\ ~RasterDefined(heap, view, pd, view[v])
        /\ heap' = heap
        /\ pc' = "crashed"
  /\ last' = Last("operator=(ImageViewBase) const", "none")
  /\ UNCHANGED <<pixelType, view, vwv>>

\* template ImageView(ViewT const& view); an exception leaves no object.
ConvertConstruct(v, pd) ==
  /\ pc = "idle" /\ ~view[v].alive
  /\ \E a \in AllocOutcomes(pixelType, heap, pd.cols, pd.rows, pd.planes) :
     \E res \in assign_from(pixelType, heap, view, v, EmptyView, pd, a[1], a[2]) :
       /\ view' = [view EXCEPT ![v] = IF res.err = "none" THEN res.view ELSE NoView]
       /\ heap' = res.heap
       /\ pc' = IF res.crashed THEN "crashed" ELSE pc
       /\ last' = Last("ImageView(ViewT)", res.err)
  /\ UNCHANGED <<pixelType, vwv>>

\* vil_view(): the VW_ASSERT that guards the wrapper.
vil_view_ok(t, vw) == vw.m_planes = 1 \/ CompoundNumChannels(t) = 1

\* vil_copy_reformat(src, wrapper): every element the wrapper addresses gets
\* the foreign array's value; stores outside the view's buffer are undefined.
vil_copy_reformat(t, hp, vw) ==
  StoreAll(hp, vw, [q \in ViewCoords(vw) |-> VilPixel(t, q[1], q[2], q[3])])

\* The interop assignment with the test of line 208 moved after set_size.
vil_assign_resize_first(t, hp, vw, ni, nj, nplanes, nb, init) ==
  LET channels == CompoundNumChannels(t)
      res == set_size(t, hp, vw, ni, nj, IF channels = 1 THEN nplanes ELSE 1, nb, init)
  IN
  IF res.err # "none"
  THEN [view |-> vw, heap |-> hp, err |-> res.err, defined |-> TRUE]
  ELSE IF channels # 1 /\ nplanes # channels
  THEN [view |-> res.view, heap |-> res.heap, err |-> "ArgumentErr", defined |-> TRUE]
  ELSE IF ~vil_view_ok(t, res.view)
  THEN [view |-> res.view, heap |-> res.heap, err |-> "ArgumentErr", defined |-> TRUE]
  ELSE [view |-> res.view, heap |-> vil_copy_reformat(t, res.heap, res.view),
        err |-> "none", defined |-> AllInAlloc(res.heap, res.view)]

\* operator=(vil_image_view const& src) on view record vw, for a foreign
\* array of ni x nj x nplanes. Yields the view, the heap, the exception
\* raised and whether the copy stayed inside the buffer.
vil_assign(t, hp, vw, ni, nj, nplanes, nb, init) ==
  LET channels == CompoundNumChannels(t) IN
  IF channels # 1 /\ nplanes # channels
  THEN [view |-> vw, heap |-> hp, err |-> "ArgumentErr", defined |-> TRUE]
  ELSE
    LET res == set_size(t, hp, vw, ni, nj, IF channels = 1 THEN nplanes ELSE 1, nb, init) IN
    IF res.err # "none"
    THEN [view |-> vw, heap |-> hp, err |-> res.err, defined |-> TRUE]
    ELSE IF ~vil_view_ok(t, res.view)
    THEN [view |-> res.view, heap |-> res.heap, err |-> "ArgumentErr", defined |-> TRUE]
    ELSE [view |-> res.view, heap |-> vil_copy_reformat(t, res.heap, res.view),
          err |-> "none", defined |-> AllInAlloc(res.heap, res.view)]

\* The planes argument set_size receives inside operator=(vil_image_view).
VilPlanes(t, nplanes) == IF CompoundNumChannels(t) = 1 THEN nplanes ELSE 1

\* ImageView& operator=(vil_image_view<...> const& src)
VilAssign(v, ni, nj, nplanes) ==
  /\ pc = "idle" /\ view[v].alive
  /\ \E a \in AllocOutcomes(pixelType, heap, ni, nj, VilPlanes(pixelType, nplanes)) :
       LET res == vil_assign(pixelType, heap, view[v], ni, nj, nplanes, a[1], a[2])
       IN /\ view' = [view EXCEPT ![v] = res.view]
          /\ \/ heap' = res.heap /\ pc' = pc
             \/ ~res.defined /\ heap' = res.heap /\ pc' = "crashed"
          /\ last' = Last("operator=(vil_image_view)", res.err)
  /\ UNCHANGED <<pixelType, vwv>>

\* ImageView(vil_image_view<...> const& src); an exception leaves no object.
VilConstruct(v, ni, nj, nplanes) ==
  /\ pc = "idle" /\ ~view[v].alive
  /\ \E a \in AllocOutcomes(pixelType, heap, ni, nj, VilPlanes(pixelType, nplanes)) :
       LET res == vil_assign(pixelType, heap, EmptyView, ni, nj, nplanes, a[1], a[2])
       IN /\ view' = [view EXCEPT ![v] = IF res.err = "none" THEN res.view ELSE NoView]
          /\ \/ heap' = res.heap /\ pc' = pc
             \/ ~res.defined /\ heap' = res.heap /\ pc' = "crashed"
          /\ last' = Last("ImageView(vil_image_view)", res.err)
  /\ UNCHANGED <<pixelType, vwv>>

Next ==
  \/ \E v \in ViewIds : DefaultConstruct(v)
  \/ \E v \in ViewIds, o \in ViewIds : CopyConstruct(v, o)
  \/ \E v \in ViewIds, o \in ViewIds : CopyAssign(v, o)
  \/ \E v \in ViewIds : Destroy(v)
  \/ \E v \in ViewIds : Reset(v)
  \/ \E v \in ViewIds, e \in Extents : SizedConstruct(v, e[1], e[2], e[3])
  \/ \E v \in ViewIds, e \in Extents : SetSize(v, e[1], e[2], e[3])
  \/ \E v \in ViewIds, q \in WriteCoords, x \in WriteValues : Write(v, q, x)
  \/ \E v \in ViewIds, pd \in Producers : Assign(v, pd)
  \/ \E v \in ViewIds : \E pd \in CopyProducers(v) : Assign(v, pd)
  \/ \E v \in ViewIds, pd \in ConstProducers : AssignConst(v, pd)
  \/ \E v \in ViewIds, pd \in Producers : ConvertConstruct(v, pd)
  \/ \E v \in ViewIds, e \in VilShapes : VilAssign(v, e[1], e[2], e[3])
  \/ \E v \in ViewIds, e \in VilShapes : VilConstruct(v, e[1], e[2], e[3])

Spec == Init /\ [][Next]_vars

\* ---- vwv: main() --------------------------------------------------------
\* What main() writes to std::cout.
Usage == "Usage: vwv [options] <image file>"
MustSpecifyOne == "Error: Must specify exactly one input file!"
Opening == "--> Opening"
CouldNotOpen == "Could not open file"

\* An exception leaves main(): no handler is found and std::terminate() is
\* called. Whether the runtime writes a diagnostic (d) before it aborts is
\* up to the implementation.
Uncaught(s, d) == [s EXCEPT !.pc = "done", !.status = "terminate", !.diag = d]

\* The process ends through exit() or a return from main().
Ends(s, how) == [s EXCEPT !.pc = "done", !.status = how]

\* po::store(po::command_line_parser(...).run(), vm); po::notify(vm). The
\* positional description takes one "image" and "image" is a single-valued
\* option: a second file name makes the parser throw. Otherwise vm holds
\* one entry per option given.
ParseOptions ==
  /\ vwv.pc = "parse"
  /\ LET a == vwv.argv IN
     IF a.images > 1
     THEN \E d \in BOOLEAN : vwv' = Uncaught(vwv, d)
     ELSE vwv' = [vwv EXCEPT
                    !.pc = "help",
                    !.vm = [help |-> IF a.help THEN 1 ELSE 0,
                            image |-> a.images,
                            normalize |-> IF a.normalize THEN 1 ELSE 0],
                    !.cache_size = IF a.cache THEN CacheArg ELSE DefaultCacheSize,
                    !.nodata_value = IF a.nodata THEN "given" ELSE "indeterminate"]
  /\ UNCHANGED <<pixelType, view, heap, pc, last>>

\* if( vm.count("help") ) { print_usage(visible_options); exit(0); }
CheckHelp ==
  /\ vwv.pc = "help"
  /\ vwv' = IF vwv.vm.help # 0
            THEN Ends([vwv EXCEPT !.out = Append(@, Usage)], "exit(0)")
            ELSE [vwv EXCEPT !.pc = "image"]
  /\ UNCHANGED <<pixelType, view, heap, pc, last>>

\* if( vm.count("image") != 1 ) { ...; print_usage(visible_options); return 1; }
CheckImage ==
  /\ vwv.pc = "image"
  /\ vwv' = IF vwv.vm.image # 1
            THEN Ends([vwv EXCEPT !.out = @ \o <<MustSpecifyOne, Usage>>], "return 1")
            ELSE [vwv EXCEPT !.pc = "cache"]
  /\ UNCHANGED <<pixelType, view, heap, pc, last>>

\* Cache::system_cache().resize( cache_size*1024*1024 );
ResizeCache ==
  /\ vwv.pc = "cache"
  /\ vwv' = [vwv EXCEPT !.pc = "open", !.cache = vwv.cache_size * 1024 * 1024]
  /\ UNCHANGED <<pixelType, view, heap, pc, last>>

\* How DiskImageResource::open(image_filename) ends: it returns a resource,
\* throws IOErr, or throws an exception of another type.
OpenOutcomes == {"ok", "IOErr", "other"}

\* try { DiskImageResource::open(...); ... } catch (IOErr &e) { ...; exit(0); }
OpenImage ==
  /\ vwv.pc = "open"
  /\ \E r \in OpenOutcomes :
       \/ /\ r = "ok"
          /\ vwv' = [vwv EXCEPT !.pc = "gui", !.open = r, !.out = Append(@, Opening)]
       \/ /\ r = "IOErr"
          /\ vwv' = Ends([vwv EXCEPT !.open = r, !.out = Append(@, CouldNotOpen)], "exit(0)")
       \/ /\ r = "other"
          /\ \E d \in BOOLEAN : vwv' = Uncaught([vwv EXCEPT !.open = r], d)
  /\ UNCHANGED <<pixelType, view, heap, pc, last>>

\* QApplication app(argc, argv); MainWindow main_window(...); main_window.show();
StartGui ==
  /\ vwv.pc = "gui"
  /\ vwv' = [vwv EXCEPT !.pc = "exec", !.gui = "shown"]
  /\ UNCHANGED <<pixelType, view, heap, pc, last>>

\* return app.exec();
Exec ==
  /\ vwv.pc = "exec"
  /\ vwv' = Ends([vwv EXCEPT !.gui = "closed"], "return app.exec()")
  /\ UNCHANGED <<pixelType, view, heap, pc, last>>

\* The viewer is started with any of the command lines.
InitVwv ==
  /\ pixelType = "int32"
  /\ view = [v \in ViewIds |-> NoView]
  /\ heap = [b \in BufIds |-> FreeBuf]
  /\ pc = "idle"
  /\ last = Last("init", "none")
  /\ vwv \in {VwvStart(a) : a \in Argvs}

NextVwv ==
  \/ ParseOptions
  \/ CheckHelp
  \/ CheckImage
  \/ ResizeCache
  \/ OpenImage
  \/ StartGui
  \/ Exec

SpecVwv == InitVwv /\ [][NextVwv]_vars

\* ---- properties ---------------------------------------------------------

\* C1: every non-degenerate view addresses, at each coordinate inside its
\* extent, an element of the buffer it holds.
C1_AddressesInsideBuffer ==
  \A v \in Alive :
    NonDegenerate(view[v]) =>
      /\ view[v].m_data # NULL
      /\ view[v].m_origin = view[v].m_data
      /\ AllInAlloc(heap, view[v])

\* The buffers and their elements are what they were, up to use counts.
SamePixels(b) == heap'[b].live = heap[b].live /\ heap'[b].mem = heap[b].mem

\* C2: a copy (constructor or assignment) takes over the source's extent,
\* strides, origin and buffer, allocates nothing and changes no element of a
\* buffer that is still held; and a store through a view at a coordinate of
\* its extent returns and is read back at that coordinate through every
\* other view of its chain.
C2_ShallowCopyAliases ==
  [][ /\ last'.op \in {"ImageView(ImageView)", "operator=(ImageView)"} =>
           \A v, o \in ViewIds :
             (CopyConstruct(v, o) \/ CopyAssign(v, o)) =>
               /\ view'[v] = view[o]
               /\ \A b \in BufIds : heap'[b].live => SamePixels(b)
      /\ last'.op = "write" =>
           \A v \in ViewIds, q \in WriteCoords, x \in WriteValues :
             Write(v, q, x) =>
               \A w \in Chain(v) \ {v} :
                 /\ pc' = "idle"
                 /\ Read(heap', view'[w], q[1], q[2], q[3]) = x
    ]_vars

\* The value read through view w at every coordinate of its extent is what
\* it was.
SameReads(w) ==
  \A q \in ViewCoords(view[w]) :
    Read(heap', view'[w], q[1], q[2], q[3]) = Read(heap, view[w], q[1], q[2], q[3])

\* C3: when a view A that shares its buffer is resized to another extent,
\* the other holders keep their members and every element, and A no longer
\* holds their buffer; and the store that follows, through A or through one
\* of the other holders, returns and is not seen through the other side.
C3_ResizeDetaches ==
  [][ /\ (last'.op = "set_size" /\ last'.err = "none") =>
           LET A == last'.was[1] IN
           \A w \in last'.was[2] \ {A} :
             /\ view'[w] = view[w]
             /\ SamePixels(view[w].m_data)
             /\ view'[A].m_data # view'[w].m_data
      /\ (last.op = "set_size" /\ last.err = "none" /\ last'.op = "write") =>
           \A v \in ViewIds, q \in WriteCoords, x \in WriteValues :
             Write(v, q, x) =>
               LET A == last.was[1] IN
               \A w \in last.was[2] \ {A} :
                 /\ pc' = "idle"
                 /\ v = A => SameReads(w)
                 /\ v = w => SameReads(A)
    ]_vars

\* C4: set_size to the extent the view already has changes nothing: not the
\* view, not any other view, not any buffer, element or use count, and it
\* returns normally.
C4_SameExtentIsNoOp ==
  [][ last'.op = "set_size (same extent)" =>
        /\ view' = view
        /\ heap' = heap
        /\ pc' = pc
        /\ last'.err = "none"
    ]_vars

\* A set_size to the extent the view already had has returned, while every
\* view shares one buffer that holds a stored value.
C4_Witness ==
  /\ last.op = "set_size (same extent)"
  /\ Alive = ViewIds
  /\ \A v \in ViewIds : Cardinality(Chain(v)) = NumViews
  /\ \E v \in ViewIds : \E q \in ViewCoords(view[v]) :
       Read(heap, view[v], q[1], q[2], q[3]) \in WriteValues

\* The element count of an extent, in the integers.
Volume(e) == e[1] * e[2] * e[3]

\* C5: set_size to another extent, and the sized constructor, leave the view
\* with exactly the requested extent and a new buffer of that many elements
\* which no other view holds and which was not allocated before; for the
\* trivially copyable element types every element of it is zero. Stated for
\* requests of at least one element whose count fits in `unsigned`.
C5_ResizeAllocatesZeroed ==
  [][ ( /\ last'.op \in {"set_size", "ImageView(cols,rows,planes)"}
        /\ last'.err = "none" ) =>
      \A v \in ViewIds, e \in Extents :
        ( /\ Volume(e) > 0 /\ Volume(e) < UnsignedMod
          /\ \/ SetSize(v, e[1], e[2], e[3])
             \/ SizedConstruct(v, e[1], e[2], e[3]) ) =>
            LET b == view'[v].m_data IN
            /\ Extent(view'[v]) = e
            /\ b # NULL
            /\ ~heap[b].live
            /\ heap'[b].live /\ heap'[b].refs = 1
            /\ Len(heap'[b].mem) = Volume(e)
            /\ pixelType \in {"int32", "pod"} =>
                 \A i \in 1..Len(heap'[b].mem) : heap'[b].mem[i] = 0
    ]_vars

\* C6: when the assignment (or converting construction) of a producer has
\* returned, the view has the producer's extent and reads, at every
\* coordinate of that extent, the producer's value at that coordinate; and
\* the assignment does return.
C6_AssignEqualsLoop ==
  [][ ( /\ last'.op \in {"operator=(ImageViewBase)", "ImageView(ViewT)"}
        /\ last'.err = "none" ) =>
      \A v \in ViewIds :
       \A pd \in Producers \cup CopyProducers(v) :
        (Assign(v, pd) \/ ConvertConstruct(v, pd)) =>
            /\ pc' = "idle"
            /\ Extent(view'[v]) = <<pd.cols, pd.rows, pd.planes>>
            /\ \A q \in Coords(pd.cols, pd.rows, pd.planes) :
                 Read(heap', view'[v], q[1], q[2], q[3]) =
                   IF pd.kind = "func" THEN PVal(q[1], q[2], q[3])
                   ELSE LET k == SourceCoord(view, pd, q)
                        IN Read(heap, view[pd.src], k[1], k[2], k[3])
    ]_vars

\* C7: V = V through operator=(ImageViewBase) returns and leaves the extent,
\* the buffer and every element of V as they were, however often it is
\* repeated.
C7_SelfAssignUnchanged ==
  [][ last'.op = "operator=(ImageViewBase)" =>
      \A v \in ViewIds :
        (view[v].alive /\ Assign(v, ViewProducer(v))) =>
            /\ last'.err = "none"
            /\ pc' = "idle"
            /\ view' = view
            /\ heap' = heap
    ]_vars

\* The views that hold buffer b.
Holders(b) == {v \in Alive : view[v].m_data = b}

\* C8: the use count of every buffer is the number of views that hold it; a
\* buffer is allocated exactly while that number is not zero; and the buffer
\* a view holds is allocated.
C8_RefCountIsHolders ==
  /\ \A b \in BufIds :
       /\ heap[b].refs = Cardinality(Holders(b))
       /\ heap[b].live <=> heap[b].refs > 0
  /\ \A v \in ViewIds : ~view[v].alive => view[v].m_data = NULL
  /\ \A v \in Alive : view[v].m_data # NULL => heap[view[v].m_data].live

\* A copy assignment has made every view hold one buffer, and the buffer the
\* assigned view let go of is free.
C8_Witness ==
  /\ last.op = "operator=(ImageView)"
  /\ Alive = ViewIds
  /\ \E b \in BufIds :
       /\ heap[b].refs = NumViews
       /\ \A o \in BufIds \ {b} : ~heap[o].live

\* C9: the interop copy into a view of an interleaved element type, from an
\* array whose plane count is not the type's channel count, raises
\* ArgumentErr and changes no view and no buffer.
C9_VilMismatchRaises ==
  [][ ( /\ last'.op \in {"operator=(vil_image_view)", "ImageView(vil_image_view)"}
        /\ CompoundNumChannels(pixelType) # 1 ) =>
      \A v \in ViewIds, e \in VilShapes :
        ( /\ e[3] # CompoundNumChannels(pixelType)
          /\ \/ VilAssign(v, e[1], e[2], e[3])
             \/ VilConstruct(v, e[1], e[2], e[3]) ) =>
            /\ last'.err = "ArgumentErr"
            /\ view' = view
            /\ heap' = heap
            /\ pc' = pc
    ]_vars

\* The interop assignment has raised ArgumentErr while every view holds a
\* buffer with a stored value in it.
C9_Witness ==
  /\ last.op = "operator=(vil_image_view)"
  /\ last.err = "ArgumentErr"
  /\ Alive = ViewIds
  /\ \A v \in ViewIds :
       /\ view[v].m_data # NULL
       /\ \E q \in ViewCoords(view[v]) :
            Read(heap, view[v], q[1], q[2], q[3]) \in WriteValues

\* C10: when operator new[] cannot satisfy the request of set_size, the call
\* leaves with bad_alloc: no set_size returns normally from a request that
\* the allocator could not satisfy (there is no second attempt). And when it
\* leaves with bad_alloc, every view and every buffer, use counts included,
\* is as before the call.
C10_BadAllocLeavesViewUnchanged ==
  [][ /\ (last'.op = "set_size" /\ last'.err = "none") =>
           LET v == last'.was[1]
               e == Extent(view'[v])
               size == Mul32(Mul32(e[1], e[2]), e[3])
           IN ~ ( /\ size # 0
                  /\ AllocChoices(heap, size) = {}
                  /\ SetSize(v, e[1], e[2], e[3]) )
      /\ (last'.op = "set_size" /\ last'.err = "bad_alloc") =>
           /\ view' = view
           /\ heap' = heap
           /\ pc' = pc
    ]_vars

\* set_size has left with bad_alloc while every view shares one buffer that
\* holds a stored value.
C10_Witness ==
  /\ last.op = "set_size"
  /\ last.err = "bad_alloc"
  /\ Alive = ViewIds
  /\ \A v \in ViewIds : Cardinality(Chain(v)) = NumViews
  /\ \E v \in ViewIds : \E q \in ViewCoords(view[v]) :
       Read(heap, view[v], q[1], q[2], q[3]) \in WriteValues

\* The operations that run set_size on the view they are called on.
SetSizeOps ==
  {"set_size", "set_size (same extent)", "operator=(ImageViewBase)",
   "operator=(vil_image_view)"}

\* The views that exist before and after the step and hold another buffer
\* (or none, or one where they held none) after it.
Rebound == {v \in ViewIds : /\ view[v].alive /\ view'[v].alive
                            /\ view'[v].m_data # view[v].m_data}

\* C11, as the specification states it: only set_size (also when an
\* assignment calls it) and reset change which buffer a view holds; reset
\* leaves the view without a buffer; and set_size never leaves a view that
\* held a buffer without one.
C11_OnlySetSizeAndReset ==
  [][ /\ \A v \in Rebound : last'.op \in SetSizeOps \cup {"reset"}
      /\ last'.op = "reset" => \A v \in Rebound : view'[v].m_data = NULL
      /\ last'.op \in SetSizeOps =>
           \A v \in Rebound : view[v].m_data # NULL => view'[v].m_data # NULL
    ]_vars

\* C11, amended: which buffer a view holds changes only by set_size (also
\* when an assignment calls it), reset and copy assignment. reset leaves the
\* view without a buffer; copy assignment leaves it with a buffer another
\* view held; set_size leaves it with a newly allocated buffer, and a
\* set_size to another extent leaves the view without a buffer exactly when
\* the element count it computes is zero.
C11_BufferTransitions ==
  [][ /\ \A v \in Rebound :
           last'.op \in SetSizeOps \cup {"reset", "operator=(ImageView)"}
      /\ last'.op = "reset" => \A v \in Rebound : view'[v].m_data = NULL
      /\ last'.op = "operator=(ImageView)" =>
           \A v \in Rebound :
             \E o \in Alive \ {v} : view'[v].m_data = view[o].m_data
      /\ last'.op \in SetSizeOps =>
           \A v \in Rebound :
             view'[v].m_data # NULL => ~heap[view'[v].m_data].live
      /\ (last'.op = "set_size" /\ last'.err = "none") =>
           LET v == last'.was[1]
               e == Extent(view'[v])
           IN view'[v].m_data = NULL <=> Mul32(Mul32(e[1], e[2]), e[3]) = 0
    ]_vars

\* A set_size that returned has left without a buffer a view that held one.
C11_Witness ==
  /\ last.op = "set_size" /\ last.err = "none"
  /\ last.was[2] # {}
  /\ view[last.was[1]].m_data = NULL
  /\ pc = "idle"

\* C12: after a set_size to another extent has returned, the view holds a
\* buffer of exactly cols*rows*planes elements, the product taken in the
\* integers, and its plane stride is rows*cols, taken in the integers.
C12_ProductsDoNotWrap ==
  [][ (last'.op = "set_size" /\ last'.err = "none") =>
        LET v == last'.was[1]
            e == Extent(view'[v])
            b == view'[v].m_data
        IN /\ Volume(e) # 0 => b # NULL
           /\ b # NULL => Len(heap'[b].mem) = Volume(e)
           /\ view'[v].m_pstride = e[2] * e[1]
    ]_vars

\* C13: a view holds no buffer exactly when its volume cols*rows*planes is
\* zero, and its origin is element 0 of the buffer it holds (null when it
\* holds none).
C13_NullIffZeroVolume ==
  \A v \in Alive :
    /\ view[v].m_data = NULL <=> Volume(Extent(view[v])) = 0
    /\ view[v].m_origin = view[v].m_data

\* C14: every view with at least one element has the dense layout: column
\* stride 1, row stride cols, plane stride rows*cols.
C14_DenseStrides ==
  \A v \in Alive :
    Volume(Extent(view[v])) # 0 =>
      /\ view[v].m_cstride = 1
      /\ view[v].m_rstride = view[v].m_cols
      /\ view[v].m_pstride = view[v].m_rows * view[v].m_cols

\* View w has the members, the buffer and the element values it had.
Untouched(w) ==
  /\ view'[w] = view[w]
  /\ view[w].m_data # NULL =>
       /\ heap'[view[w].m_data].live
       /\ heap'[view[w].m_data].mem = heap[view[w].m_data].mem
  /\ SameReads(w)

\* C15: a default-constructed view has extent 0 x 0 x 0 and no buffer;
\* reset leaves a view in the state of a default-constructed one; reset and
\* destruction take one reference from the buffer the view held and nothing
\* else: every other view, the holders of that buffer included, keeps its
\* members, its buffer and every element value.
C15_ResetReleasesOwnReference ==
  [][ /\ last'.op = "ImageView()" =>
           \E v \in ViewIds :
             /\ ~view[v].alive /\ view'[v].alive
             /\ Extent(view'[v]) = <<0, 0, 0>>
             /\ view'[v].m_data = NULL /\ view'[v].m_origin = NULL
             /\ heap' = heap
      /\ last'.op \in {"reset", "~ImageView"} =>
           LET v == last'.was[1]
               b == view[v].m_data
           IN /\ last'.op = "reset" =>
                   /\ view'[v].alive
                   /\ Extent(view'[v]) = <<0, 0, 0>>
                   /\ view'[v].m_data = NULL /\ view'[v].m_origin = NULL
              /\ last'.op = "~ImageView" => ~view'[v].alive
              /\ \A w \in Alive \ {v} : Untouched(w)
              /\ \A o \in BufIds \ {b} : heap'[o] = heap[o]
              /\ b # NULL =>
                   IF heap[b].refs = 1 THEN ~heap'[b].live
                   ELSE /\ heap'[b].refs = heap[b].refs - 1
                        /\ heap'[b].mem = heap[b].mem
    ]_vars

\* A reset has run on a view whose buffer another view held too, and that
\* other view still reads a stored value from it.
C15_Witness ==
  /\ last.op = "reset"
  /\ \E w \in last.was[2] \ {last.was[1]} :
       \E q \in ViewCoords(view[w]) :
         Read(heap, view[w], q[1], q[2], q[3]) \in WriteValues

\* The operations that realize a producer into a view.
RealizeOps ==
  {"operator=(ImageViewBase)", "operator=(ImageViewBase) const", "ImageView(ViewT)"}

\* C16: whenever an assignment overload or the converting constructor has
\* run the producer's realize step, the sink it handed to that step has the
\* producer's cols, rows and planes.
C16_SinkHasProducerExtent ==
  [][ (last'.op \in RealizeOps /\ last'.err = "none") =>
      \A v \in ViewIds :
       \A pd \in Producers \cup CopyProducers(v) :
        (Assign(v, pd) \/ AssignConst(v, pd) \/ ConvertConstruct(v, pd)) =>
            Extent(view'[v]) = PExtent(pd)
    ]_vars

\* The buffer b, held by a producer, is allocated and holds what it held
\* once set_size(e) has run on view v, whatever the allocator does.
KeptThroughResize(v, b, e) ==
  \A a \in AllocOutcomes(pixelType, heap, e[1], e[2], e[3]) :
    LET res == set_size(pixelType, sa_share(heap, b), view[v], e[1], e[2], e[3], a[1], a[2])
    IN res.err = "none" =>
         /\ res.heap[b].live
         /\ res.heap[b].mem = heap[b].mem

\* C17: in V = P, where P holds a shallow copy of V, reads from V's buffer
\* and has an extent other than V's, the buffer P reads from is allocated
\* and unaltered when the realize step runs, V ends up holding another
\* buffer, and the values P delivered are values V held before.
C17_SourceSurvivesResize ==
  [][ (last'.op = "operator=(ImageViewBase)" /\ last'.err = "none") =>
      \A v \in Alive :
       \A pd \in CopyProducers(v) :
        LET b == view[v].m_data
            e == PExtent(pd)
        IN
        (b # NULL /\ Assign(v, pd)) =>
            /\ KeptThroughResize(v, b, e)
            /\ view'[v].m_data # NULL
            /\ view'[v].m_data # b
            /\ pc' = "idle" =>
                 \A q \in ViewCoords(view'[v]) :
                   LET k == ChildCoord(view[v], q)
                   IN /\ InAlloc(heap, view[v], k[1], k[2], k[3])
                      /\ Read(heap', view'[v], q[1], q[2], q[3]) =
                           Read(heap, view[v], k[1], k[2], k[3])
    ]_vars

\* main() has written to std::cout, or the runtime has written a diagnostic.
Printed == vwv.out # <<>> \/ vwv.diag

\* The command line does not name exactly one image, or the open threw IOErr.
StartupFailed == vwv.argv.images # 1 \/ vwv.open = "IOErr"

\* C18: when the command line does not name exactly one image, or opening
\* the image raises IOErr, no GUI object is ever created and the program has
\* printed a message by the time it has ended; and the GUI objects exist
\* only after the file was opened successfully.
C18_StartupFailureReported ==
  /\ StartupFailed => vwv.gui = "none"
  /\ (StartupFailed /\ vwv.pc = "done") => Printed
  /\ vwv.gui # "none" => vwv.open = "ok"
====
